---- MODULE Spec2Model ----
(***************************************************************************)
(* Model of fooocusapi/routes/generate_v1.py: the seven POST routes of     *)
(* secure_router, the collaborators they call (api_key_auth, call_worker,  *)
(* read_input_image, HWC3, the two interrogators, generate_mask_from_image *)
(* and process_stop) and the responses they give.  A request is followed   *)
(* from its arrival through the router's dependency, the handler body and  *)
(* each collaborator call to its response.  Collaborators are outside the  *)
(* module: what they return, or raise, is a nondeterministic choice.       *)
(***************************************************************************)
EXTENDS Naturals, Sequences, FiniteSets

\* Number of requests that may be in flight together.
NumReqs == 2

Slots == 1..NumReqs

\* Python's None (an absent header, query parameter or return value).
None == "None"

----------------------------------------------------------------------------
(* Values                                                                  *)

\* len() of the strings that occur as header and query values.
len(s) ==
    CASE s = "" -> 0
      [] s = "image/png" -> 9
      [] s = "application/json" -> 16

GenerationPaths ==
    { "/v1/generation/text-to-image",
      "/v1/generation/image-upscale-vary",
      "/v1/generation/image-inpaint-outpaint",
      "/v1/generation/image-prompt" }

\* DescribeImageType, as the handler uses it: its member photo and the rest.
DescribeImageType == [photo |-> "Photo", anime |-> "Anime"]

PhotoInterrogator == "extras.interrogate.default_interrogator"
AnimeInterrogator == "extras.wd14tagger.default_interrogator"

\* The collaborators a handler body may call (api_key_auth is the router's).
Collaborators ==
    { "call_worker", "read_input_image", "image.read", PhotoInterrogator,
      AnimeInterrogator, "generate_mask_from_image", "process_stop" }

\* Request bodies bound to req, and uploaded files.
Bodies ==
    { [prompt |-> "a cat", async_process |-> FALSE],
      [prompt |-> "a dog", async_process |-> TRUE] }

Uploads ==
    { [filename |-> "a.png", data |-> "bytes_a"],
      [filename |-> "b.png", data |-> "bytes_b"] }

AcceptHeaders == { None, "application/json", "image/png" }
AcceptQueries == { None, "", "image/png", "application/json" }

GenerationRequests ==
    [ path : GenerationPaths, req : Bodies,
      accept : AcceptHeaders, accept_query : AcceptQueries ]

DescribeRequests ==
    [ path : {"/v1/tools/describe-image"}, image : Uploads,
      image_type : {None, "Photo", "Anime"} ]

MaskRequests ==
    [ path : {"/v1/tools/generate-mask"}, image : Uploads,
      mask_model : {"u2net_cloth_seg", "sam", "u2net", "isnet-anime"},
      cloth_category : {"upper", "lower"},
      sam_prompt_text : {"person", "dog"},
      sam_model : {"vit_b"}, sam_quant : {"Q8"},
      box_threshold : {"0.3"}, text_threshold : {"0.25"} ]

StopRequests == [ path : {"/v1/generation/stop"} ]

Requests ==
    GenerationRequests \cup DescribeRequests \cup MaskRequests \cup StopRequests

\* The requests that arrive while others are in flight.
ConcurrentRequests ==
    { q \in GenerationRequests :
        /\ q.req.prompt = "a cat"
        /\ q.accept = "application/json"
        /\ \/ q.accept_query = None
           \/ q.accept_query = "image/png" /\ q.path = "/v1/generation/text-to-image" }
    \cup { q \in DescribeRequests : q.image.filename = "a.png" /\ q.image_type # None }
    \cup { q \in MaskRequests :
             /\ q.image.filename = "a.png"
             /\ q.mask_model \in {"sam", "u2net"}
             /\ q.cloth_category = "upper"
             /\ q.sam_prompt_text = "person" }
    \cup StopRequests

NoRequest == [path |-> None]

\* What a collaborator call ends with.
Returned(v) == [status |-> "returned", value |-> v]
Raised(e)   == [status |-> "raised", value |-> e]
Pending     == [status |-> "pending", value |-> None]

AuthOutcomes        == { Returned(None), Raised("HTTPException(403)") }
WorkerOutcomes      == { Returned("images"), Returned("async_job"), Raised("WorkerError") }
ReadImageOutcomes   == { Returned("array_1"), Returned("array_2"), Raised("ImageError") }
InterrogateOutcomes == { Returned("tags_1"), Returned("tags_2"), Raised("ModelError") }
MaskOutcomes        == { Returned("mask_1"), Returned("mask_2"), Raised("MaskError") }
StopOutcomes        == { Returned(None), Raised("StopError") }

\* A handler's way out: a response, or an exception that leaves it.
NoResponse  == [kind |-> "none", value |-> None]
Return(v)   == [kind |-> "return", value |-> v]
Raise(e)    == [kind |-> "raise", value |-> e]

----------------------------------------------------------------------------
(* State                                                                   *)

VARIABLES
    secure_router,  \* the module's router: its dependencies and its routes
    pc,             \* where each request is
    request,        \* what each request carries
    calls,          \* the collaborator calls made for each request, in order
    interrogator,   \* describe_image's local of that name
    response        \* each request's response, or the exception that left

vars == <<secure_router, pc, request, calls, interrogator, response>>

\* The paths the decorators register, with the handler each one names.
RegisteredRoutes ==
    [ p \in GenerationPaths \cup
            { "/v1/tools/describe-image", "/v1/tools/generate-mask",
              "/v1/generation/stop" } |->
        CASE p = "/v1/generation/text-to-image" -> "text2img_generation"
          [] p = "/v1/generation/image-upscale-vary" -> "img_upscale_or_vary"
          [] p = "/v1/generation/image-inpaint-outpaint" -> "img_inpaint_or_outpaint"
          [] p = "/v1/generation/image-prompt" -> "img_prompt"
          [] p = "/v1/tools/describe-image" -> "describe_image"
          [] p = "/v1/tools/generate-mask" -> "generate_mask_route"
          [] p = "/v1/generation/stop" -> "stop" ]

\* APIRouter(dependencies=[Depends(api_key_auth)]) without the dependency.
APIRouter_NoDependencies == {}

\* APIRouter(dependencies=[Depends(api_key_auth)])
APIRouterDependencies == { "api_key_auth" }

Handler(r) == secure_router.routes[request[r].path]

Call(fn, args) == [fn |-> fn, args |-> args, ret |-> Pending]

LastCall(r) == calls[r][Len(calls[r])]

\* The pending call of request r ends with outcome.
EndCall(r, outcome) ==
    [calls EXCEPT ![r] = [@ EXCEPT ![Len(@)] = [@ EXCEPT !.ret = outcome]]]

\* The handler of request r is inside a call to collaborator fn.
Inside(r, fn) ==
    /\ pc[r] = "in_call"
    /\ LastCall(r).fn = fn

\* The handler of request r ends with way (a Return or a Raise).
Finish(r, way) ==
    /\ pc' = [pc EXCEPT ![r] = IF way.kind = "return" THEN "done" ELSE "failed"]
    /\ response' = [response EXCEPT ![r] = way]

Init ==
    /\ secure_router = [dependencies |-> APIRouterDependencies,
                        routes |-> RegisteredRoutes]
    /\ pc = [r \in Slots |-> "idle"]
    /\ request = [r \in Slots |-> NoRequest]
    /\ calls = [r \in Slots |-> <<>>]
    /\ interrogator = [r \in Slots |-> None]
    /\ response = [r \in Slots |-> NoResponse]

----------------------------------------------------------------------------
(* The router                                                              *)

\* A request arrives.
Arrive(r) ==
    /\ pc[r] = "idle"
    /\ \E q \in ConcurrentRequests :
         request' = [request EXCEPT ![r] = q]
    /\ pc' = [pc EXCEPT ![r] = "arrived"]
    /\ UNCHANGED <<secure_router, calls, interrogator, response>>

\* The router runs its dependencies, and the route's handler only when
\* none of them raised.
Dispatch(r) ==
    /\ pc[r] = "arrived"
    /\ request[r].path \in DOMAIN secure_router.routes
    /\ IF "api_key_auth" \in secure_router.dependencies
       THEN \E outcome \in AuthOutcomes :
              /\ calls' = [calls EXCEPT ![r] =
                    Append(@, [fn |-> "api_key_auth", args |-> <<>>, ret |-> outcome])]
              /\ IF outcome.status = "returned"
                 THEN /\ pc' = [pc EXCEPT ![r] = "handler"]
                      /\ UNCHANGED response
                 ELSE /\ pc' = [pc EXCEPT ![r] = "rejected"]
                      /\ response' = [response EXCEPT ![r] = Raise(outcome.value)]
       ELSE /\ pc' = [pc EXCEPT ![r] = "handler"]
            /\ UNCHANGED <<calls, response>>
    /\ UNCHANGED <<secure_router, request, interrogator>>

----------------------------------------------------------------------------
(* The generation handlers                                                 *)

\* EffectiveAccept without the len() test: an empty query parameter
\* overrides the header too.
EffectiveAccept_NotNoneOnly(accept, accept_query) ==
    IF accept_query # None
    THEN accept_query
    ELSE accept

\* The accept value a generation handler hands on: the query parameter
\* when it is given and not empty, else the header.
EffectiveAccept(accept, accept_query) ==
    IF accept_query # None /\ len(accept_query) > 0
    THEN accept_query
    ELSE accept

\* A handler that catches what its callee raised and answers all the same.
ReturnAnyway(outcome, value) == Return(value)

\* A handler with no try/except: what its callee raised leaves the handler,
\* and only a callee that returned lets it return value.
ReturnOrPropagate(outcome, value) ==
    IF outcome.status = "raised"
    THEN Raise(outcome.value)
    ELSE Return(value)

\* text2img_generation keeping answers in a module-level cache: a request
\* equal to one already answered gets that answer, and no worker call.
text2img_generation_Cached(r) ==
    /\ pc[r] = "handler"
    /\ Handler(r) = "text2img_generation"
    /\ LET hits == { g \in Slots \ {r} : pc[g] = "done" /\ request[g] = request[r] }
           req == request[r].req
           accept == EffectiveAccept(request[r].accept, request[r].accept_query)
       IN  IF hits # {}
           THEN /\ Finish(r, response[CHOOSE g \in hits : TRUE])
                /\ UNCHANGED calls
           ELSE /\ calls' = [calls EXCEPT ![r] = Append(@, Call("call_worker", <<req, accept>>))]
                /\ pc' = [pc EXCEPT ![r] = "in_call"]
                /\ UNCHANGED response
    /\ UNCHANGED <<secure_router, request, interrogator>>

text2img_generation(r) ==
    /\ pc[r] = "handler"
    /\ Handler(r) = "text2img_generation"
    /\ LET req == request[r].req
           accept == EffectiveAccept(request[r].accept, request[r].accept_query)
       IN  calls' = [calls EXCEPT ![r] = Append(@, Call("call_worker", <<req, accept>>))]
    /\ pc' = [pc EXCEPT ![r] = "in_call"]
    /\ UNCHANGED <<secure_router, request, interrogator, response>>

img_upscale_or_vary(r) ==
    /\ pc[r] = "handler"
    /\ Handler(r) = "img_upscale_or_vary"
    /\ LET req == request[r].req
           accept == EffectiveAccept(request[r].accept, request[r].accept_query)
       IN  calls' = [calls EXCEPT ![r] = Append(@, Call("call_worker", <<req, accept>>))]
    /\ pc' = [pc EXCEPT ![r] = "in_call"]
    /\ UNCHANGED <<secure_router, request, interrogator, response>>

\* img_inpaint_or_outpaint setting a field of req before it forwards it.
img_inpaint_or_outpaint_SetsField(r) ==
    /\ pc[r] = "handler"
    /\ Handler(r) = "img_inpaint_or_outpaint"
    /\ LET req == [request[r].req EXCEPT !.async_process = TRUE]
           accept == EffectiveAccept(request[r].accept, request[r].accept_query)
       IN  /\ calls' = [calls EXCEPT ![r] = Append(@, Call("call_worker", <<req, accept>>))]
           /\ request' = [request EXCEPT ![r].req = req]
    /\ pc' = [pc EXCEPT ![r] = "in_call"]
    /\ UNCHANGED <<secure_router, interrogator, response>>

img_inpaint_or_outpaint(r) ==
    /\ pc[r] = "handler"
    /\ Handler(r) = "img_inpaint_or_outpaint"
    /\ LET req == request[r].req
           accept == EffectiveAccept(request[r].accept, request[r].accept_query)
       IN  calls' = [calls EXCEPT ![r] = Append(@, Call("call_worker", <<req, accept>>))]
    /\ pc' = [pc EXCEPT ![r] = "in_call"]
    /\ UNCHANGED <<secure_router, request, interrogator, response>>

img_prompt(r) ==
    /\ pc[r] = "handler"
    /\ Handler(r) = "img_prompt"
    /\ LET req == request[r].req
           accept == EffectiveAccept(request[r].accept, request[r].accept_query)
       IN  calls' = [calls EXCEPT ![r] = Append(@, Call("call_worker", <<req, accept>>))]
    /\ pc' = [pc EXCEPT ![r] = "in_call"]
    /\ UNCHANGED <<secure_router, request, interrogator, response>>

\* call_worker returns or raises, and the generation handler with it.
CallWorkerReturn(r) ==
    /\ Inside(r, "call_worker")
    /\ \E outcome \in WorkerOutcomes :
         /\ calls' = EndCall(r, outcome)
         /\ Finish(r, ReturnOrPropagate(outcome, outcome.value))
    /\ UNCHANGED <<secure_router, request, interrogator>>

----------------------------------------------------------------------------
(* describe_image                                                          *)

\* image_type handed on as given, None when it is not given.
BindImageType_NoDefault(image_type) == image_type

\* image_type's binding: the query parameter, DescribeImageType.photo
\* when it is not given.
BindImageType(image_type) ==
    IF image_type = None THEN DescribeImageType.photo ELSE image_type

\* The interrogator the if/else of describe_image picks.
SelectInterrogator(image_type) ==
    IF image_type = DescribeImageType.photo
    THEN PhotoInterrogator
    ELSE AnimeInterrogator

\* modules.util.HWC3 applied to x.
HWC3(x) == <<"HWC3", x>>

DescribeImageResponse(describe) == [describe |-> describe]

\* describe_image up to its call of read_input_image.
describe_image(r) ==
    /\ pc[r] = "handler"
    /\ Handler(r) = "describe_image"
    /\ interrogator' = [interrogator EXCEPT ![r] =
            SelectInterrogator(BindImageType(request[r].image_type))]
    /\ calls' = [calls EXCEPT ![r] =
            Append(@, Call("read_input_image", <<request[r].image>>))]
    /\ pc' = [pc EXCEPT ![r] = "in_call"]
    /\ UNCHANGED <<secure_router, request, response>>

\* read_input_image returns, and describe_image calls its interrogator on
\* HWC3 of the image; or read_input_image raises.
ReadInputImageReturn(r) ==
    /\ Inside(r, "read_input_image")
    /\ \E outcome \in ReadImageOutcomes :
         IF outcome.status = "returned"
         THEN /\ LET img == HWC3(outcome.value)
                 IN  calls' = [EndCall(r, outcome) EXCEPT ![r] =
                        Append(@, Call(interrogator[r], <<img>>))]
              /\ UNCHANGED <<pc, response>>
         ELSE /\ calls' = EndCall(r, outcome)
              /\ Finish(r, ReturnOrPropagate(outcome, None))
    /\ UNCHANGED <<secure_router, request, interrogator>>

\* The interrogator returns or raises, and describe_image with it.
InterrogatorReturn(r) ==
    /\ pc[r] = "in_call"
    /\ LastCall(r).fn \in {PhotoInterrogator, AnimeInterrogator}
    /\ \E outcome \in InterrogateOutcomes :
         /\ calls' = EndCall(r, outcome)
         /\ LET result == outcome.value
            IN  Finish(r, ReturnOrPropagate(outcome, DescribeImageResponse(result)))
    /\ UNCHANGED <<secure_router, request, interrogator>>

----------------------------------------------------------------------------
(* generate_mask_route                                                     *)

\* The extras dict with the 'sam' branch taken by every model but
\* 'u2net_cloth_seg' (else for elif).
MaskExtras_SamByDefault(mask_model, cloth_category, sam_prompt_text, sam_model, sam_quant, box_threshold, text_threshold) ==
    IF mask_model = "u2net_cloth_seg"
    THEN [cloth_category |-> cloth_category]
    ELSE [sam_prompt_text |-> sam_prompt_text,
          sam_model |-> sam_model,
          sam_quant |-> sam_quant,
          box_threshold |-> box_threshold,
          text_threshold |-> text_threshold]

\* The extras dict generate_mask_route builds.
MaskExtras(mask_model, cloth_category, sam_prompt_text, sam_model, sam_quant, box_threshold, text_threshold) ==
    IF mask_model = "u2net_cloth_seg"
    THEN [cloth_category |-> cloth_category]
    ELSE IF mask_model = "sam"
    THEN [sam_prompt_text |-> sam_prompt_text,
          sam_model |-> sam_model,
          sam_quant |-> sam_quant,
          box_threshold |-> box_threshold,
          text_threshold |-> text_threshold]
    ELSE <<>>

\* generate_mask_route up to its await of image.read().
generate_mask_route(r) ==
    /\ pc[r] = "handler"
    /\ Handler(r) = "generate_mask_route"
    /\ calls' = [calls EXCEPT ![r] = Append(@, Call("image.read", <<request[r].image>>))]
    /\ pc' = [pc EXCEPT ![r] = "in_call"]
    /\ UNCHANGED <<secure_router, request, interrogator, response>>

\* image.read() gives the upload's bytes, and generate_mask_route builds
\* extras and calls generate_mask_from_image; or image.read() raises.
ImageReadReturn(r) ==
    /\ Inside(r, "image.read")
    /\ \E outcome \in { Returned(request[r].image.data), Raised("ReadError") } :
         IF outcome.status = "returned"
         THEN /\ LET q == request[r]
                     image_data == outcome.value
                     extras == MaskExtras(q.mask_model, q.cloth_category,
                                          q.sam_prompt_text, q.sam_model, q.sam_quant,
                                          q.box_threshold, q.text_threshold)
                 IN  calls' = [EndCall(r, outcome) EXCEPT ![r] =
                        Append(@, Call("generate_mask_from_image",
                                       <<image_data, q.mask_model, extras>>))]
              /\ UNCHANGED <<pc, response>>
         ELSE /\ calls' = EndCall(r, outcome)
              /\ Finish(r, ReturnOrPropagate(outcome, None))
    /\ UNCHANGED <<secure_router, request, interrogator>>

\* generate_mask_from_image returns or raises, and generate_mask_route with it.
GenerateMaskReturn(r) ==
    /\ Inside(r, "generate_mask_from_image")
    /\ \E outcome \in MaskOutcomes :
         /\ calls' = EndCall(r, outcome)
         /\ LET mask == outcome.value
            IN  Finish(r, ReturnOrPropagate(outcome,
                    [filename |-> request[r].image.filename, mask |-> mask]))
    /\ UNCHANGED <<secure_router, request, interrogator>>

----------------------------------------------------------------------------
(* stop                                                                    *)

StopResponse(msg) == [msg |-> msg]

\* stop_worker(): the call of process_stop.
stop_worker(r) ==
    calls' = [calls EXCEPT ![r] = Append(@, Call("process_stop", <<>>))]

\* stop waiting until no generation handler is inside call_worker.
stop_WaitsForWorker(r) ==
    /\ pc[r] = "handler"
    /\ Handler(r) = "stop"
    /\ \A g \in Slots : ~Inside(g, "call_worker")
    /\ stop_worker(r)
    /\ pc' = [pc EXCEPT ![r] = "in_call"]
    /\ UNCHANGED <<secure_router, request, interrogator, response>>

\* stop calling stop_worker only when a generation is inside call_worker,
\* and answering at once when none is.
stop_OnlyWhenBusy(r) ==
    /\ pc[r] = "handler"
    /\ Handler(r) = "stop"
    /\ IF \E g \in Slots : Inside(g, "call_worker")
       THEN /\ stop_worker(r)
            /\ pc' = [pc EXCEPT ![r] = "in_call"]
            /\ UNCHANGED response
       ELSE /\ Finish(r, Return(StopResponse("success")))
            /\ UNCHANGED calls
    /\ UNCHANGED <<secure_router, request, interrogator>>

\* stop up to its call of stop_worker.
stop(r) ==
    /\ pc[r] = "handler"
    /\ Handler(r) = "stop"
    /\ stop_worker(r)
    /\ pc' = [pc EXCEPT ![r] = "in_call"]
    /\ UNCHANGED <<secure_router, request, interrogator, response>>

\* process_stop returns or raises, and stop with it.
ProcessStopReturn(r) ==
    /\ Inside(r, "process_stop")
    /\ \E outcome \in StopOutcomes :
         /\ calls' = EndCall(r, outcome)
         /\ Finish(r, ReturnOrPropagate(outcome, StopResponse("success")))
    /\ UNCHANGED <<secure_router, request, interrogator>>

----------------------------------------------------------------------------
(* Specifications                                                          *)

\* The step of a handler body that is about to run.
HandlerStep(r) ==
    \/ text2img_generation(r)
    \/ img_upscale_or_vary(r)
    \/ img_inpaint_or_outpaint(r)
    \/ img_prompt(r)
    \/ describe_image(r)
    \/ generate_mask_route(r)
    \/ stop(r)

\* A collaborator comes back to the handler that called it.
ReturnStep(r) ==
    \/ CallWorkerReturn(r)
    \/ ReadInputImageReturn(r)
    \/ InterrogatorReturn(r)
    \/ ImageReadReturn(r)
    \/ GenerateMaskReturn(r)
    \/ ProcessStopReturn(r)

\* Concurrent requests: any interleaving of their steps.
Next ==
    \E r \in Slots :
        \/ Arrive(r)
        \/ Dispatch(r)
        \/ HandlerStep(r)
        \/ ReturnStep(r)

Spec == Init /\ [][Next]_vars

\* One request, of every shape the routes accept.
InitOne ==
    /\ secure_router = [dependencies |-> APIRouterDependencies,
                        routes |-> RegisteredRoutes]
    /\ \E q \in Requests :
         request = [r \in Slots |-> IF r = 1 THEN q ELSE NoRequest]
    /\ pc = [r \in Slots |-> IF r = 1 THEN "arrived" ELSE "idle"]
    /\ calls = [r \in Slots |-> <<>>]
    /\ interrogator = [r \in Slots |-> None]
    /\ response = [r \in Slots |-> NoResponse]

NextOne ==
    \E r \in Slots :
        \/ Dispatch(r)
        \/ HandlerStep(r)
        \/ ReturnStep(r)

SpecOne == InitOne /\ [][NextOne]_vars

----------------------------------------------------------------------------
(* Properties                                                              *)

\* The places in calls[r] of the calls to the functions F.
CallIdx(r, F) == { i \in 1..Len(calls[r]) : calls[r][i].fn \in F }

\* The handler body of request r has started.
BodyStarted(r) == pc[r] \in {"in_call", "done", "failed"}

\* api_key_auth was called first for request r, and returned.
Authenticated(r) ==
    /\ Len(calls[r]) >= 1
    /\ calls[r][1].fn = "api_key_auth"
    /\ calls[r][1].ret.status = "returned"

IsGeneration(r) == request[r].path \in GenerationPaths
IsStop(r)       == request[r].path = "/v1/generation/stop"
IsDescribe(r)   == request[r].path = "/v1/tools/describe-image"
IsMask(r)       == request[r].path = "/v1/tools/generate-mask"

\* C1: on every route the handler body runs, and a collaborator is called,
\* only after api_key_auth has returned for that same request; a request
\* whose api_key_auth raised has no collaborator call and no handler run.
C1_AuthBeforeHandler ==
    \A r \in Slots :
        /\ (pc[r] = "handler" \/ BodyStarted(r) \/ CallIdx(r, Collaborators) # {})
              => /\ Authenticated(r)
                 /\ \A i \in CallIdx(r, Collaborators) : i > 1
        /\ (\E i \in CallIdx(r, {"api_key_auth"}) : calls[r][i].ret.status = "raised")
              => /\ CallIdx(r, Collaborators) = {}
                 /\ pc[r] = "rejected"
                 /\ response[r].kind = "raise"

\* One request answered after its collaborator was called, another rejected
\* with no collaborator call.
C1_Witness ==
    \E a, b \in Slots :
        /\ pc[a] = "done" /\ IsStop(a) /\ CallIdx(a, {"process_stop"}) # {}
        /\ pc[b] = "rejected" /\ IsGeneration(b) /\ Len(calls[b]) = 1

\* C2: on each of the four generation routes the accept value handed to
\* call_worker is the accept query parameter when it is present and not
\* empty, and the Accept header (None when absent) otherwise.
C2_AcceptQueryOverridesHeader ==
    \A r \in Slots :
        IsGeneration(r) =>
            /\ BodyStarted(r) => CallIdx(r, {"call_worker"}) # {}
            /\ \A i \in CallIdx(r, {"call_worker"}) :
                 calls[r][i].args[2] =
                    IF request[r].accept_query \notin {None, ""}
                    THEN request[r].accept_query
                    ELSE request[r].accept

\* A query parameter that differs from the header has overridden it.
C2_Witness ==
    \E r \in Slots :
        /\ request[r].path = "/v1/generation/image-prompt"
        /\ request[r].accept = "application/json"
        /\ request[r].accept_query = "image/png"
        /\ \E i \in CallIdx(r, {"call_worker"}) : calls[r][i].args[2] = "image/png"

\* C3 (in every state): a generation handler calls call_worker exactly
\* once, with the bound request object as it arrived, calls no other
\* collaborator, and answers exactly what call_worker returned.
C3_State ==
    \A r \in Slots :
        IsGeneration(r) =>
            /\ CallIdx(r, Collaborators) = CallIdx(r, {"call_worker"})
            /\ Cardinality(CallIdx(r, {"call_worker"})) = IF BodyStarted(r) THEN 1 ELSE 0
            /\ \A i \in CallIdx(r, {"call_worker"}) :
                 /\ calls[r][i].args[1] = request[r].req
                 /\ pc[r] = "done" =>
                      /\ calls[r][i].ret.status = "returned"
                      /\ response[r] = Return(calls[r][i].ret.value)
            /\ response[r].kind = "return" => pc[r] = "done"

\* C3 (in every step): no step changes a request that has arrived.
C3_Frame ==
    \A r \in Slots : request[r] # NoRequest => request'[r] = request[r]

\* C3: each generation request is forwarded to the worker unchanged, once,
\* and the response is the worker's return value.
C3_ForwardedUnchanged == [] C3_State /\ [][C3_Frame]_vars

\* A generation request answered with what call_worker returned.
C3_Witness ==
    \E r \in Slots :
        /\ request[r].path = "/v1/generation/image-inpaint-outpaint"
        /\ request[r].req.async_process = FALSE
        /\ pc[r] = "done"
        /\ response[r] = Return("async_job")

\* C4: a stop handler calls process_stop exactly once and no other
\* collaborator, and it answers only after process_stop has returned, with
\* msg "success", whatever the other requests are doing.
C4_StopCallsProcessStop ==
    \A r \in Slots :
        IsStop(r) =>
            /\ CallIdx(r, Collaborators) = CallIdx(r, {"process_stop"})
            /\ Cardinality(CallIdx(r, {"process_stop"})) = IF BodyStarted(r) THEN 1 ELSE 0
            /\ response[r].kind = "return" =>
                 /\ response[r].value = [msg |-> "success"]
                 /\ pc[r] = "done"
                 /\ \E i \in CallIdx(r, {"process_stop"}) :
                      calls[r][i].ret.status = "returned"
            /\ pc[r] = "done" => response[r].kind = "return"

\* A stop answered when no generation request was ever made.
C4_Witness ==
    \E r \in Slots :
        /\ IsStop(r)
        /\ pc[r] = "done"
        /\ response[r] = Return([msg |-> "success"])
        /\ \A g \in Slots : ~IsGeneration(g)

Finished(r) == pc[r] \in {"done", "failed", "rejected"}

Min(m, n) == IF m <= n THEN m ELSE n

\* The first n collaborator calls of requests a and b ended alike.
SameReturns(a, b, n) == \A j \in 1..n : calls[a][j].ret = calls[b][j].ret

\* C5: the module keeps no state.  The router is what the import made it,
\* and whatever else is in flight or was answered before, two requests
\* with the same inputs whose collaborators gave the same results have
\* made the same calls with the same arguments and got the same response.
C5_NoModuleState ==
    /\ secure_router = [dependencies |-> {"api_key_auth"}, routes |-> RegisteredRoutes]
    /\ \A a, b \in Slots :
         (a # b /\ request[a].path # None /\ request[a] = request[b]) =>
            LET n == Min(Len(calls[a]), Len(calls[b]))
            IN  /\ \A k \in 1..n :
                     SameReturns(a, b, k - 1) =>
                        /\ calls[a][k].fn = calls[b][k].fn
                        /\ calls[a][k].args = calls[b][k].args
                /\ (Finished(b) /\ Len(calls[b]) = n /\ SameReturns(a, b, n)) =>
                        /\ Len(calls[a]) = n
                        /\ Finished(a)
                        /\ response[a] = response[b]

\* Two equal generation requests, both answered, the worker having given
\* each the same result.
C5_Witness ==
    \E a, b \in Slots :
        /\ a # b
        /\ request[a].path = "/v1/generation/text-to-image"
        /\ request[a] = request[b]
        /\ pc[a] = "done" /\ pc[b] = "done"
        /\ response[a] = Return("images") /\ response[b] = Return("images")

\* C6: a collaborator call that raised is the handler's last, and the
\* request ends with that very exception and no success response.
C6_FailuresPropagate ==
    \A r \in Slots :
        /\ \A i \in 1..Len(calls[r]) :
             calls[r][i].ret.status = "raised" =>
                /\ i = Len(calls[r])
                /\ pc[r] \in {"failed", "rejected"}
                /\ response[r] = Raise(calls[r][i].ret.value)
        /\ response[r].kind = "return" =>
             \A i \in 1..Len(calls[r]) : calls[r][i].ret.status = "returned"

\* process_stop raised and stop did not answer "success".
C6_Witness ==
    \E r \in Slots :
        /\ IsStop(r)
        /\ pc[r] = "failed"
        /\ calls[r][Len(calls[r])].fn = "process_stop"
        /\ response[r] = Raise("StopError")

\* C7: describe_image calls the photo interrogator when image_type is
\* photo or omitted and the anime interrogator otherwise, once, on HWC3
\* of what read_input_image returned for the uploaded image, never the
\* other one, and answers with describe set to the interrogator's result.
C7_DescribeSelectsInterrogator ==
    \A r \in Slots :
        IsDescribe(r) =>
            LET photo  == request[r].image_type \in {None, "Photo"}
                chosen == IF photo THEN PhotoInterrogator ELSE AnimeInterrogator
                other  == IF photo THEN AnimeInterrogator ELSE PhotoInterrogator
                I      == CallIdx(r, {chosen})
            IN  /\ CallIdx(r, {other}) = {}
                /\ Cardinality(I) <= 1
                /\ pc[r] = "done" => Cardinality(I) = 1
                /\ response[r].kind = "return" => pc[r] = "done"
                /\ \A i \in I :
                     /\ i > 1
                     /\ calls[r][i - 1].fn = "read_input_image"
                     /\ calls[r][i - 1].args = <<request[r].image>>
                     /\ calls[r][i - 1].ret.status = "returned"
                     /\ calls[r][i].args = <<HWC3(calls[r][i - 1].ret.value)>>
                     /\ pc[r] = "done" =>
                          response[r] = Return([describe |-> calls[r][i].ret.value])

\* image_type omitted: the photo interrogator was called and its result
\* is the answer.
C7_Witness ==
    \E r \in Slots :
        /\ IsDescribe(r)
        /\ request[r].image_type = None
        /\ pc[r] = "done"
        /\ CallIdx(r, {PhotoInterrogator}) # {}
        /\ response[r] = Return([describe |-> "tags_2"])

\* C8: generate_mask_route calls generate_mask_from_image once, for every
\* mask_model, with the upload's bytes, the mask_model as given and extras
\* holding cloth_category alone for 'u2net_cloth_seg', the five sam
\* parameters for 'sam' and nothing otherwise, each with the request's
\* value; it answers with the upload's filename and the returned mask.
C8_MaskExtrasByModel ==
    \A r \in Slots :
        IsMask(r) =>
            LET q    == request[r]
                G    == CallIdx(r, {"generate_mask_from_image"})
                keys == IF q.mask_model = "u2net_cloth_seg"
                        THEN {"cloth_category"}
                        ELSE IF q.mask_model = "sam"
                        THEN {"sam_prompt_text", "sam_model", "sam_quant",
                              "box_threshold", "text_threshold"}
                        ELSE {}
            IN  /\ Cardinality(G) <= 1
                /\ pc[r] = "done" => Cardinality(G) = 1
                /\ (\E i \in CallIdx(r, {"image.read"}) :
                        calls[r][i].ret.status = "returned") => G # {}
                /\ \A i \in G :
                     /\ calls[r][i].args[1] = q.image.data
                     /\ calls[r][i].args[2] = q.mask_model
                     /\ DOMAIN calls[r][i].args[3] = keys
                     /\ \A k \in keys : calls[r][i].args[3][k] = q[k]
                     /\ pc[r] = "done" =>
                          response[r] = Return([filename |-> q.image.filename,
                                                mask |-> calls[r][i].ret.value])

\* A mask_model that is neither 'sam' nor 'u2net_cloth_seg' answered, with
\* empty extras.
C8_Witness ==
    \E r \in Slots :
        /\ IsMask(r)
        /\ request[r].mask_model = "isnet-anime"
        /\ pc[r] = "done"
        /\ \E i \in CallIdx(r, {"generate_mask_from_image"}) :
             DOMAIN calls[r][i].args[3] = {}

\* C9: a handler that is about to call its collaborator can do so whatever
\* the other requests are doing: stop can call process_stop while
\* generation handlers are inside call_worker, and a generation handler
\* can call call_worker whatever else is in flight.  Every generation
\* request whose handler has started has exactly one call_worker call,
\* carrying its own request.
C9_NoMutualExclusion ==
    /\ \A r \in Slots :
         (pc[r] = "handler" /\ IsStop(r)) => ENABLED stop(r)
    /\ \A r \in Slots :
         (pc[r] = "handler" /\ IsGeneration(r)) =>
            ENABLED (\/ text2img_generation(r)
                     \/ img_upscale_or_vary(r)
                     \/ img_inpaint_or_outpaint(r)
                     \/ img_prompt(r))
    /\ \A r \in Slots :
         /\ Cardinality(CallIdx(r, {"call_worker"})) =
               IF IsGeneration(r) /\ BodyStarted(r) THEN 1 ELSE 0
         /\ \A i \in CallIdx(r, {"call_worker"}) : calls[r][i].args[1] = request[r].req

\* A stop about to call process_stop, and able to, while every other
\* request is a generation inside call_worker.
C9_Witness ==
    \E s \in Slots :
        /\ IsStop(s)
        /\ pc[s] = "handler"
        /\ ENABLED stop(s)
        /\ \A g \in Slots \ {s} : Inside(g, "call_worker")

====
